---- MODULE Spec2Model ----
(***************************************************************************)
(* rebase-downstream-branches: discovery of a chain of stacked pull        *)
(* requests and the replay of every branch of the chain onto its parent.   *)
(*                                                                         *)
(* A branch name is a sequence of one-character strings, so that the       *)
(* validator and the protected-branch test work on characters as the code  *)
(* does.  A commit is named by the sequence of changes from the root of    *)
(* the history up to it (its "hash"); a ref is the hash of its tip and the *)
(* empty sequence stands for a ref that does not exist (and for JavaScript *)
(* null / the empty string).                                               *)
(***************************************************************************)
EXTENDS Naturals, Integers, Sequences, FiniteSets, TLC

(***************************************************************************)
(* Bounds of the model.                                                    *)
(***************************************************************************)
\* most pull requests the host returns for one base branch
MaxPRsPerBase == 2
\* cap on the chain length in the guard of the discovery loop; the loop of
\* the code stops below it (C10_Bounds), a loop that fails to stop would not
MaxChainLen == 5
\* in how many ways the repository departs from the plain one
MaxDeviations == 1
\* longest string handed to the validator on its own
MaxLen == 3
\* most arguments on a command line handed to the parser on its own
MaxArgs == 2

(***************************************************************************)
(* Characters and strings                                                  *)
(***************************************************************************)
Upper == <<"A","B","C","D","E","F","G","H","I","J","K","L","M",
           "N","O","P","Q","R","S","T","U","V","W","X","Y","Z">>
Lower == <<"a","b","c","d","e","f","g","h","i","j","k","l","m",
           "n","o","p","q","r","s","t","u","v","w","x","y","z">>
Digits == {"0","1","2","3","4","5","6","7","8","9"}

Range(s) == {s[i] : i \in 1..Len(s)}

\* the list left in the order the log gave it
Reverse_none(s) == s

RECURSIVE Reverse(_)
Reverse(s) == IF s = <<>> THEN <<>> ELSE Append(Reverse(Tail(s)), Head(s))

Front(s) == SubSeq(s, 1, Len(s) - 1)
Last(s) == s[Len(s)]

\* String.prototype.toLowerCase, character by character
toLowerCaseChar(c) ==
    IF \E i \in 1..26 : Upper[i] = c
    THEN Lower[CHOOSE i \in 1..26 : Upper[i] = c]
    ELSE c
toLowerCase(s) == [i \in 1..Len(s) |-> toLowerCaseChar(s[i])]

\* String.prototype.includes / startsWith
includes(s, t) == \E i \in 0..(Len(s) - Len(t)) : SubSeq(s, i + 1, i + Len(t)) = t
startsWith(s, t) == Len(s) >= Len(t) /\ SubSeq(s, 1, Len(t)) = t

(***************************************************************************)
(* utils/validation                                                        *)
(***************************************************************************)
\* the character class [a-zA-Z0-9/_.-]
validChars == Range(Upper) \cup Range(Lower) \cup Digits \cup {"/", "_", ".", "-"}

\* /^[a-zA-Z0-9/_.-]+$/
validPattern(branch) ==
    /\ Len(branch) >= 1
    /\ \A i \in 1..Len(branch) : branch[i] \in validChars

\* the validator without its test for ".."
sanitizeBranchName_noDotDot(branch) ==
    IF ~validPattern(branch)
    THEN [ok |-> FALSE, value |-> <<>>, error |-> "Invalid branch name"]
    ELSE IF startsWith(branch, <<"-">>)
    THEN [ok |-> FALSE, value |-> <<>>, error |-> "Potentially unsafe branch name"]
    ELSE [ok |-> TRUE, value |-> branch, error |-> ""]

\* the value returned, or the message of the Error thrown
sanitizeBranchName(branch) ==
    IF ~validPattern(branch)
    THEN [ok |-> FALSE, value |-> <<>>, error |-> "Invalid branch name"]
    ELSE IF includes(branch, <<".", ".">>) \/ startsWith(branch, <<"-">>)
    THEN [ok |-> FALSE, value |-> <<>>, error |-> "Potentially unsafe branch name"]
    ELSE [ok |-> TRUE, value |-> branch, error |-> ""]

protectedBranches ==
    { <<"m","a","i","n">>,
      <<"m","a","s","t","e","r">>,
      <<"d","e","v","e","l","o","p">>,
      <<"d","e","v","e","l","o","p","m","e","n","t">>,
      <<"s","t","a","g","i","n","g">>,
      <<"p","r","o","d","u","c","t","i","o","n">>,
      <<"p","r","o","d">> }

isProtectedBranch_exactCase(branch) == branch \in protectedBranches

\* a test that takes every name beginning with a protected one
isProtectedBranch_startsWith(branch) ==
    \E p \in protectedBranches : startsWith(toLowerCase(branch), p)

isProtectedBranch(branch) == toLowerCase(branch) \in protectedBranches

(***************************************************************************)
(* The names of the model                                                  *)
(***************************************************************************)
nMain == <<"M","a","i","n">>
nA == <<"a">>
nB == <<"b">>
nBad == <<"b",";">>

\* branch names that pass the validator: the refs of the repository
Branches == {nMain, nA, nB}
\* head ref names the host can report
HeadRefNames == Branches \cup {nBad}
\* the names a ref of the repository can have: git admits ";" in a name
Refs == Branches \cup {nBad}


(***************************************************************************)
(* cli/args-parser: an argument is a string, written as a sequence of      *)
(* characters like a branch name                                           *)
(***************************************************************************)
tHelp == <<"-","-","h","e","l","p">>
tH == <<"-","h">>
tVersion == <<"-","-","v","e","r","s","i","o","n">>
tV == <<"-","v">>
tDryRun == <<"-","-","d","r","y","-","r","u","n">>
tHost == <<"-","-","h","o","s","t">>
tYes == <<"-","-","y","e","s">>
tY == <<"-","y">>
\* an option the parser does not know
tUnknown == <<"-","x">>

defaultOptions ==
    [branch |-> <<>>, dryRun |-> FALSE, help |-> FALSE, version |-> FALSE,
     host |-> <<>>, skipConfirmation |-> FALSE]

\* a loop that takes every argument that is not a known option for the branch
RECURSIVE parseFrom_anyToken(_, _, _)
parseFrom_anyToken(args, i, o) ==
    IF i > Len(args) THEN o
    ELSE LET arg == args[i]
         IN IF arg = tHelp \/ arg = tH
            THEN parseFrom_anyToken(args, i + 1, [o EXCEPT !.help = TRUE])
            ELSE IF arg = tVersion \/ arg = tV
            THEN parseFrom_anyToken(args, i + 1, [o EXCEPT !.version = TRUE])
            ELSE IF arg = tDryRun
            THEN parseFrom_anyToken(args, i + 1, [o EXCEPT !.dryRun = TRUE])
            ELSE IF arg = tHost /\ i + 1 <= Len(args) /\ args[i + 1] # <<>>
            THEN parseFrom_anyToken(args, i + 2, [o EXCEPT !.host = args[i + 1]])
            ELSE IF arg = tYes \/ arg = tY
            THEN parseFrom_anyToken(args, i + 1, [o EXCEPT !.skipConfirmation = TRUE])
            ELSE parseFrom_anyToken(args, i + 1, [o EXCEPT !.branch = arg])

\* the loop of parseArgs from position i on
RECURSIVE parseFrom(_, _, _)
parseFrom(args, i, o) ==
    IF i > Len(args) THEN o
    ELSE LET arg == args[i]
         IN IF arg = tHelp \/ arg = tH
            THEN parseFrom(args, i + 1, [o EXCEPT !.help = TRUE])
            ELSE IF arg = tVersion \/ arg = tV
            THEN parseFrom(args, i + 1, [o EXCEPT !.version = TRUE])
            ELSE IF arg = tDryRun
            THEN parseFrom(args, i + 1, [o EXCEPT !.dryRun = TRUE])
            ELSE IF arg = tHost /\ i + 1 <= Len(args) /\ args[i + 1] # <<>>
            THEN parseFrom(args, i + 2, [o EXCEPT !.host = args[i + 1]])
            ELSE IF arg = tYes \/ arg = tY
            THEN parseFrom(args, i + 1, [o EXCEPT !.skipConfirmation = TRUE])
            ELSE IF ~startsWith(arg, <<"-">>)
            THEN parseFrom(args, i + 1, [o EXCEPT !.branch = arg])
            ELSE parseFrom(args, i + 1, o)

parseArgs(args) == parseFrom(args, 1, defaultOptions)

(***************************************************************************)
(* utils/github: the host's reply to `gh pr list --base <branch>` is an    *)
(* input of the run: either the command fails, or it prints a list of open *)
(* pull requests, in the host's order.                                     *)
(***************************************************************************)
RawPR(n, head) == [number |-> n, headRefName |-> head]

RECURSIVE RawLists(_)
RawLists(n) ==
    IF n = 0 THEN {<<>>}
    ELSE LET shorter == RawLists(n - 1)
         IN shorter \cup {Append(l, RawPR(Len(l) + 1, h)) :
                            l \in {s \in shorter : Len(s) = n - 1}, h \in HeadRefNames}

GhAnswers ==
    {[failed |-> TRUE, prs |-> <<>>]} \cup
    {[failed |-> FALSE, prs |-> l] : l \in RawLists(MaxPRsPerBase)}

\* the list returned for the base branch, given gh's reply; any throw inside
\* the try block (a name rejected by the validator, gh failing) gives []
findPRsTargeting_headAsTarget(baseBranch, result) ==
    LET heads == [i \in 1..Len(result.prs) |-> sanitizeBranchName(result.prs[i].headRefName)]
    IN IF ~sanitizeBranchName(baseBranch).ok THEN <<>>
       ELSE IF result.failed THEN <<>>
       ELSE IF \E i \in 1..Len(heads) : ~heads[i].ok THEN <<>>
       ELSE [i \in 1..Len(heads) |->
               [number |-> result.prs[i].number,
                branch |-> heads[i].value,
                target |-> result.prs[i].headRefName]]

findPRsTargeting(baseBranch, result) ==
    LET heads == [i \in 1..Len(result.prs) |-> sanitizeBranchName(result.prs[i].headRefName)]
    IN IF ~sanitizeBranchName(baseBranch).ok THEN <<>>
       ELSE IF result.failed THEN <<>>
       ELSE IF \E i \in 1..Len(heads) : ~heads[i].ok THEN <<>>
       ELSE [i \in 1..Len(heads) |->
               [number |-> result.prs[i].number,
                branch |-> heads[i].value,
                target |-> baseBranch]]

\* the warning logged by the catch block of findPRsTargeting, with the
\* message of the error caught; "" when nothing was thrown
findPRsTargetingWarning(baseBranch, result) ==
    LET base == sanitizeBranchName(baseBranch)
        heads == [i \in 1..Len(result.prs) |-> sanitizeBranchName(result.prs[i].headRefName)]
        bad == {i \in 1..Len(heads) : ~heads[i].ok}
        first == CHOOSE i \in bad : \A j \in bad : i <= j
        message == IF ~base.ok THEN base.error
                   ELSE IF result.failed THEN "Command failed"
                   ELSE IF bad # {} THEN heads[first].error
                   ELSE ""
    IN CASE message = "" -> ""
         [] message = "Command failed" -> "Could not fetch PRs: Command failed"
         [] message = "Invalid branch name" -> "Could not fetch PRs: Invalid branch name"
         [] OTHER -> "Could not fetch PRs: Potentially unsafe branch name"

(***************************************************************************)
(* utils/git: the repository is a record                                   *)
(*   local, remote, tracking : branch -> tip (<<>> when the ref is absent) *)
(*   head     : the branch checked out                                     *)
(*   status   : the text of `git status --porcelain`                       *)
(*   picking  : a cherry-pick is in progress                               *)
(*   backup   : the refs under refs/backup, with the tips they point at    *)
(*   writable : refs can be created under refs/backup                      *)
(*   elsewhere: the branches checked out in another worktree               *)
(* Each operation gives the repository after it and whether it succeeded.  *)
(***************************************************************************)
isPrefix(s, t) == Len(s) <= Len(t) /\ SubSeq(t, 1, Len(s)) = s

\* length of the history two tips share
CommonLen(s, t) ==
    CHOOSE n \in 0..Len(s) :
        /\ n <= Len(t)
        /\ SubSeq(s, 1, n) = SubSeq(t, 1, n)
        /\ \A m \in (n + 1)..Len(s) : m > Len(t) \/ SubSeq(s, 1, m) # SubSeq(t, 1, m)

getCurrentBranch(g) == g.head

\* git log <branch>: every commit of the branch, whatever the target holds
getBranchOwnCommits_all(g, branch, targetBranch) ==
    IF g.local[branch] = <<>> \/ g.local[targetBranch] = <<>>
    THEN [ok |-> FALSE, list |-> <<>>]
    ELSE LET b == g.local[branch]
         IN [ok |-> TRUE, list |-> [i \in 1..Len(b) |-> SubSeq(b, 1, Len(b) - i + 1)]]

\* git log <target>..<branch> --oneline, newest first; [] when git fails
getBranchOwnCommits(g, branch, targetBranch) ==
    IF g.local[branch] = <<>> \/ g.local[targetBranch] = <<>>
    THEN [ok |-> FALSE, list |-> <<>>]
    ELSE LET b == g.local[branch]
             n == CommonLen(b, g.local[targetBranch])
         IN [ok |-> TRUE,
             list |-> [i \in 1..(Len(b) - n) |-> SubSeq(b, 1, Len(b) - i + 1)]]

\* git fetch origin; net: the network answers
fetchFromOrigin(g, net) ==
    IF net
    THEN [ok |-> TRUE,
          git |-> [g EXCEPT !.tracking =
                      [b \in Refs |-> IF g.remote[b] # <<>> THEN g.remote[b] ELSE @[b]]]]
    ELSE [ok |-> FALSE, git |-> g]

\* git checkout <branch>: a local branch, or one created from origin/<branch>
checkoutBranch(g, branch) ==
    IF g.picking \/ branch \in g.elsewhere THEN [ok |-> FALSE, git |-> g]
    ELSE IF g.local[branch] # <<>>
    THEN [ok |-> TRUE, git |-> [g EXCEPT !.head = branch]]
    ELSE IF g.tracking[branch] # <<>>
    THEN [ok |-> TRUE, git |-> [g EXCEPT !.head = branch, !.local[branch] = g.tracking[branch]]]
    ELSE [ok |-> FALSE, git |-> g]

\* git pull origin <branch> --ff-only: fetches origin's <branch> and
\* fast-forwards the branch that is checked out
pullBranch(g, branch) ==
    IF g.picking \/ g.remote[branch] = <<>> THEN [ok |-> FALSE, git |-> g]
    ELSE LET g1 == [g EXCEPT !.tracking[branch] = g.remote[branch]]
             mine == g.local[g.head]
         IN IF isPrefix(g.remote[branch], mine) THEN [ok |-> TRUE, git |-> g1]
            ELSE IF isPrefix(mine, g.remote[branch])
            THEN [ok |-> TRUE, git |-> [g1 EXCEPT !.local[g.head] = g.remote[branch]]]
            ELSE [ok |-> FALSE, git |-> g1]

\* git reset --hard <target>
resetHard(g, target) ==
    IF g.local[target] = <<>> THEN [ok |-> FALSE, git |-> g]
    ELSE [ok |-> TRUE, git |-> [g EXCEPT !.local[g.head] = g.local[target],
                                         !.status = <<>>, !.picking = FALSE]]

StatusOf(outcome) ==
    CASE outcome = "UU" -> <<"U","U"," ","f">>
      [] outcome = "AA" -> <<"A","A"," ","f">>
      [] outcome = "DD" -> <<"D","D"," ","f">>
      [] outcome = "DU" -> <<"D","U"," ","f">>
      [] outcome = "untracked" -> <<"?","?"," ","f">>
      [] OTHER -> <<>>

\* what git cherry-pick <hash> can do on the checked-out branch: the change is
\* already there (an empty commit), the commit sits on its own parent (it
\* applies), or the base differs and the content of the files decides: the
\* commit applies, or it conflicts (both modified UU, both added AA, both
\* deleted DD, deleted by us DU), or an untracked file of the working tree is
\* in the way of a file the commit adds and git refuses to start
CherryPickOutcomes(g, commitHash) ==
    IF Last(commitHash) \in Range(g.local[g.head]) THEN {"empty"}
    ELSE IF Front(commitHash) = g.local[g.head] THEN {"applied"}
    ELSE {"applied", "UU", "AA", "DD", "DU", "untracked"}

cherryPick(g, commitHash, outcome) ==
    IF outcome = "applied"
    THEN [ok |-> TRUE, git |-> [g EXCEPT !.local[g.head] = Append(@, Last(commitHash))]]
    ELSE [ok |-> FALSE, git |-> [g EXCEPT !.status = StatusOf(outcome),
                                          !.picking = (outcome # "untracked")]]

\* git cherry-pick --skip
cherryPickSkip(g) ==
    IF g.picking THEN [ok |-> TRUE, git |-> [g EXCEPT !.status = <<>>, !.picking = FALSE]]
    ELSE [ok |-> FALSE, git |-> g]

getStatus(g) == g.status

\* a test that knows "both modified" only
hasConflict_onlyUU(status) == includes(status, <<"U","U">>)

\* a test that takes every entry of the status for a conflict
hasConflict_anyEntry(status) == Len(status) > 0

hasConflict(status) ==
    \/ includes(status, <<"U","U">>)
    \/ includes(status, <<"A","A">>)
    \/ includes(status, <<"D","D">>)

\* git push origin <branch> --force-with-lease: the lease is the
\* remote-tracking ref, the remote branch must still be where it points
pushBranch(g, branch) ==
    IF g.local[branch] = <<>> \/ g.tracking[branch] # g.remote[branch]
    THEN [ok |-> FALSE, git |-> g]
    ELSE [ok |-> TRUE, git |-> [g EXCEPT !.remote[branch] = g.local[branch],
                                         !.tracking[branch] = g.local[branch]]]

(***************************************************************************)
(* utils/backup                                                            *)
(***************************************************************************)
NoBackup == [branch |-> <<>>, stamp |-> 0]

\* a backup of whatever is checked out instead of the branch named
createBackup_ofHead(g, branch, now) ==
    IF g.local[g.head] # <<>> /\ g.writable
    THEN [ref |-> [branch |-> branch, stamp |-> now],
          git |-> [g EXCEPT !.backup = @ \cup {[ref |-> [branch |-> branch, stamp |-> now],
                                                 tip |-> g.local[g.head]]}]]
    ELSE [ref |-> [branch |-> <<>>, stamp |-> 0], git |-> g]

\* git update-ref refs/backup/<branch>-<timestamp> <branch>; null on failure
createBackup(g, branch, now) ==
    IF g.local[branch] # <<>> /\ g.writable
    THEN [ref |-> [branch |-> branch, stamp |-> now],
          git |-> [g EXCEPT !.backup = @ \cup {[ref |-> [branch |-> branch, stamp |-> now],
                                                 tip |-> g.local[branch]]}]]
    ELSE [ref |-> NoBackup, git |-> g]


(***************************************************************************)
(* core/chain-builder                                                      *)
(***************************************************************************)
getBranchesInChain(c) == [i \in 1..Len(c) |-> c[i].branch]

(***************************************************************************)
(* The state of a run                                                      *)
(***************************************************************************)
VARIABLES
    pc,             \* where the process is
    argv,           \* the arguments of the command line
    options,        \* main: the result of parseArgs
    answer,         \* promptConfirmation: the line read, until the promise resolves
    startBranch,    \* main: the branch discovery starts from
    chain,          \* buildPRChain: the links found so far; then main's chain
    visited,        \* buildPRChain: the branches looked up
    currentBranch,  \* buildPRChain: the cursor
    prsLength,      \* buildPRChain: prs.length in the iteration under way
    git,            \* the repository (local refs, origin, working tree)
    originalBranch, \* executeRebase: the branch checked out at the start
    backups,        \* executeRebase: the backups created
    successCount,   \* executeRebase
    idx,            \* executeRebase: the position of `item` in the chain
    commitHashes,   \* rebaseBranch: the commits collected for the link
    k,              \* rebaseBranch: the position in commitHashes
    collectedTip,   \* the tip the link's branch had when its commits were collected
    ops,            \* every external command executed, in order
    out,            \* what was shown to the user, in order
    clock,          \* new Date()
    exitCode        \* the status the process ended with (-1 while it runs)

vars == <<pc, argv, options, answer, startBranch, chain, visited, currentBranch,
          prsLength, git,
          originalBranch, backups, successCount, idx, commitHashes, k,
          collectedTip, ops, out, clock, exitCode>>

discoveryVars == <<chain, visited, currentBranch, prsLength>>
loopVars == <<originalBranch, backups, successCount, idx, commitHashes, k, collectedTip>>

\* an executed command: its name, the ref (or commit) it names, the link of
\* the chain it was run for (0 outside the loop) and how it ended
Op(cmd, ref, link, res) == [cmd |-> cmd, ref |-> ref, link |-> link, res |-> res]
\* a failure is swallowed where it happens (a catch that returns, ignoreError)
\* or thrown to the caller
Ignored(ok) == IF ok THEN "ok" ELSE "ignored"
Thrown(ok) == IF ok THEN "ok" ELSE "threw"
\* a message shown, with the list it shows: the backups, or for the final
\* report "Rebased n/m branches" the pair <<n, m>>
Msg(msg, list) == [msg |-> msg, backups |-> list]

(***************************************************************************)
(* The repositories a run can start in.  The plain one: origin's Main is   *)
(* o-u while the local Main is still o (upstream has advanced); feature    *)
(* branch a was cut from o and holds x, b was cut from a and holds y, both *)
(* in step with origin; Main is checked out; refs/backup can be written.   *)
(* A repository departs from the plain one in at most MaxDeviations ways:  *)
(*   Main pulled  the local Main is o-u already                            *)
(*   <b> foreign  origin's <b> holds a commit r of someone else, which was *)
(*                never fetched                                            *)
(*   <b> elsewhere  <b> is checked out in another worktree, so it cannot   *)
(*                be checked out here                                      *)
(*   <b> absent   <b> exists neither locally nor on origin (the head of a  *)
(*                pull request from a fork)                                *)
(*   head <b>     <b> is checked out instead of Main                       *)
(*   head bad     a local branch named "b;", cut from o and never pushed,  *)
(*                is checked out instead of Main                           *)
(*   refs readonly  no ref can be created under refs/backup                *)
(***************************************************************************)
Features == Branches \ {nMain}

Short(b) == IF b = nA THEN "a" ELSE "b"

Deviations ==
    {<<"Main", "pulled">>, <<"refs", "readonly">>} \cup
    {<<Short(b), m>> : b \in Features, m \in {"foreign", "elsewhere", "absent"}} \cup
    {<<"head", Short(b)>> : b \in Features} \cup
    {<<"head", "bad">>}

Base(b) == IF b = nA THEN <<"o", "x">> ELSE <<"o", "x", "y">>

Repository(dev) ==
    LET here(b) == b = nMain \/ <<Short(b), "absent">> \notin dev
        mainTip == IF <<"Main", "pulled">> \in dev THEN <<"o", "u">> ELSE <<"o">>
    IN [local     |-> [b \in Refs |->
                         IF b = nBad THEN (IF <<"head", "bad">> \in dev THEN <<"o">> ELSE <<>>)
                         ELSE IF b = nMain THEN mainTip ELSE IF here(b) THEN Base(b) ELSE <<>>],
        tracking  |-> [b \in Refs |->
                         IF b = nBad THEN <<>>
                         ELSE IF b = nMain THEN mainTip ELSE IF here(b) THEN Base(b) ELSE <<>>],
        remote    |-> [b \in Refs |->
                         IF b = nBad THEN <<>>
                         ELSE IF b = nMain THEN <<"o", "u">>
                         ELSE IF ~here(b) THEN <<>>
                         ELSE IF <<Short(b), "foreign">> \in dev THEN Append(Base(b), "r")
                         ELSE Base(b)],
        head      |-> IF <<"head", "bad">> \in dev THEN nBad
                      ELSE IF \E b \in Features : <<"head", Short(b)>> \in dev
                      THEN CHOOSE b \in Features : <<"head", Short(b)>> \in dev
                      ELSE nMain,
        elsewhere |-> {b \in Features : <<Short(b), "elsewhere">> \in dev},
        status    |-> <<>>,
        picking   |-> FALSE,
        backup    |-> {},
        writable  |-> <<"refs", "readonly">> \notin dev]

Consistent(dev) ==
    /\ \A d \in dev, e \in dev : d[1] = e[1] => d = e
    /\ \A b \in Features :
          <<"head", Short(b)>> \in dev => <<Short(b), "elsewhere">> \notin dev /\ <<Short(b), "absent">> \notin dev

Repositories ==
    {Repository(dev) : dev \in {d \in SUBSET Deviations :
                                  Cardinality(d) <= MaxDeviations /\ Consistent(d)}}

\* the command lines of a run: the flags, then the branch if one is named
CommandLines ==
    {<<tHelp>>, <<tVersion>>} \cup
    {flags \o name : flags \in {<<>>, <<tDryRun>>, <<tYes>>, <<tYes, tDryRun>>},
                     name \in {<<>>} \cup {<<b>> : b \in HeadRefNames}}

Init ==
    /\ pc = "main"
    /\ argv \in CommandLines
    /\ options = defaultOptions
    /\ answer = <<>>
    /\ startBranch = <<>>
    /\ chain = <<>>
    /\ visited = {}
    /\ currentBranch = <<>>
    /\ prsLength = 0
    /\ git \in Repositories
    /\ originalBranch = <<>>
    /\ backups = <<>>
    /\ successCount = 0
    /\ idx = 0
    /\ commitHashes = <<>>
    /\ k = 0
    /\ collectedTip = <<>>
    /\ ops = <<>>
    /\ out = <<>>
    /\ clock = 1
    /\ exitCode = -1

\* process.exit(code)
Exit(code) ==
    /\ pc' = "exit"
    /\ exitCode' = code

(***************************************************************************)
(* cli/index: main, up to the call of buildPRChain                         *)
(***************************************************************************)
Main ==
    /\ pc = "main"
    /\ \E envOk \in BOOLEAN :
         LET parsed == parseArgs(argv)
             \* determineStartBranch: options.branch || getCurrentBranch()
             start == IF parsed.branch # <<>> THEN parsed.branch ELSE getCurrentBranch(git)
             checked == sanitizeBranchName(start)
         IN /\ options' = parsed
            /\ IF parsed.help
               THEN /\ Exit(0)
                    /\ out' = Append(out, Msg("help", <<>>))
                    /\ UNCHANGED <<startBranch, currentBranch>>
               ELSE IF parsed.version
               THEN /\ Exit(0)
                    /\ out' = Append(out, Msg("version", <<>>))
                    /\ UNCHANGED <<startBranch, currentBranch>>
               ELSE IF ~envOk
               THEN \* validateEnvironment
                    /\ Exit(1)
                    /\ out' = Append(out, Msg("environment", <<>>))
                    /\ UNCHANGED <<startBranch, currentBranch>>
               ELSE IF ~checked.ok
               THEN /\ Exit(1)
                    /\ out' = Append(out, Msg(checked.error, <<>>))
                    /\ UNCHANGED <<startBranch, currentBranch>>
               ELSE /\ startBranch' = checked.value
                    /\ currentBranch' = checked.value
                    /\ out' = IF isProtectedBranch(checked.value)
                              THEN Append(out, Msg("protected start", <<>>))
                              ELSE out
                    /\ pc' = "discover"
                    /\ UNCHANGED exitCode
    /\ UNCHANGED <<argv, answer, chain, visited, prsLength, git, ops, clock>>
    /\ UNCHANGED loopVars

(***************************************************************************)
(* core/chain-builder: one iteration of the loop of buildPRChain           *)
(***************************************************************************)
\* visited.has(currentBranch)
CycleGuard(seen, branch) == branch \in seen

\* visited.add(currentBranch)
visitedAdd_onlyLast(seen, branch) == {branch}

visitedAdd(seen, branch) == seen \cup {branch}

\* the pull request followed when the last one of the list is taken
pr_last(prs) == prs[Len(prs)]

\* const pr = prs[0]
pr(prs) == prs[1]

\* a discovery loop that ends the run when a lookup fails
buildPRChain_lookupFatal ==
    /\ pc = "discover"
    /\ Len(chain) < MaxChainLen
    /\ IF CycleGuard(visited, currentBranch)
       THEN /\ pc' = "plan"
            /\ out' = Append(out, Msg("circular", <<>>))
            /\ prsLength' = 0
            /\ UNCHANGED <<chain, visited, currentBranch, ops, exitCode>>
       ELSE \E result \in GhAnswers :
            LET prs == findPRsTargeting(currentBranch, result)
                warning == findPRsTargetingWarning(currentBranch, result)
            IN /\ visited' = visitedAdd(visited, currentBranch)
               /\ ops' = Append(ops, Op("pr list", currentBranch, 0, Ignored(~result.failed)))
               /\ out' = IF warning # "" THEN Append(out, Msg(warning, <<>>)) ELSE out
               /\ prsLength' = Len(prs)
               /\ IF result.failed
                  THEN /\ Exit(1)
                       /\ UNCHANGED <<chain, currentBranch>>
                  ELSE IF Len(prs) = 0
                  THEN /\ pc' = "plan"
                       /\ UNCHANGED <<chain, currentBranch, exitCode>>
                  ELSE /\ chain' = Append(chain, pr(prs))
                       /\ currentBranch' = pr(prs).branch
                       /\ pc' = "discover"
                       /\ UNCHANGED exitCode
    /\ UNCHANGED <<argv, options, answer, startBranch, git, clock>>
    /\ UNCHANGED loopVars

buildPRChain ==
    /\ pc = "discover"
    /\ Len(chain) < MaxChainLen
    /\ IF CycleGuard(visited, currentBranch)
       THEN \* circular reference: break, return chain
            /\ pc' = "plan"
            /\ out' = Append(out, Msg("circular", <<>>))
            /\ prsLength' = 0
            /\ UNCHANGED <<chain, visited, currentBranch, ops>>
       ELSE \E result \in GhAnswers :
            LET prs == findPRsTargeting(currentBranch, result)
                warning == findPRsTargetingWarning(currentBranch, result)
            IN /\ visited' = visitedAdd(visited, currentBranch)
               /\ ops' = Append(ops, Op("pr list", currentBranch, 0, Ignored(~result.failed)))
               /\ out' = IF warning # "" THEN Append(out, Msg(warning, <<>>)) ELSE out
               /\ prsLength' = Len(prs)
               /\ IF Len(prs) = 0
                  THEN /\ pc' = "plan"
                       /\ UNCHANGED <<chain, currentBranch>>
                  ELSE /\ chain' = Append(chain, pr(prs))
                       /\ currentBranch' = pr(prs).branch
                       /\ pc' = "discover"
    /\ UNCHANGED <<argv, options, answer, startBranch, git, clock, exitCode>>
    /\ UNCHANGED loopVars


(***************************************************************************)
(* cli/index: main, after buildPRChain                                     *)
(***************************************************************************)
\* validateChain passes: no branch of the chain is protected
validateChain_firstLinkOnly(c) == ~isProtectedBranch(c[1].branch)

\* a check that also refuses a chain whose target is protected
validateChain_targetsToo(c) ==
    \A i \in 1..Len(c) : ~isProtectedBranch(c[i].branch) /\ ~isProtectedBranch(c[i].target)

validateChain(c) ==
    LET branches == getBranchesInChain(c)
    IN \A i \in 1..Len(branches) : ~isProtectedBranch(branches[i])

\* main without the check for the empty chain
Plan_noEmptyCheck ==
    /\ pc = "plan"
    /\ IF ~validateChain(chain)
       THEN /\ Exit(1)
            /\ out' = Append(out, Msg("cannot rebase protected branches", <<>>))
       ELSE IF options.dryRun
       THEN /\ Exit(0)
            /\ out' = out \o <<Msg("chain", <<>>), Msg("dry run", <<>>)>>
       ELSE /\ pc' = "confirm"
            /\ out' = out \o <<Msg("chain", <<>>), Msg("will force-push", <<>>)>>
            /\ UNCHANGED exitCode
    /\ UNCHANGED <<argv, options, answer, startBranch, git, ops, clock>>
    /\ UNCHANGED discoveryVars
    /\ UNCHANGED loopVars

Plan ==
    /\ pc = "plan"
    /\ IF Len(chain) = 0
       THEN /\ Exit(0)
            /\ out' = Append(out, Msg("nothing to rebase", <<>>))
       ELSE IF ~validateChain(chain)
       THEN /\ Exit(1)
            /\ out' = Append(out, Msg("cannot rebase protected branches", <<>>))
       ELSE IF options.dryRun
       THEN /\ Exit(0)
            /\ out' = out \o <<Msg("chain", <<>>), Msg("dry run", <<>>)>>
       ELSE /\ pc' = "confirm"
            /\ out' = out \o <<Msg("chain", <<>>), Msg("will force-push", <<>>)>>
            /\ UNCHANGED exitCode
    /\ UNCHANGED <<argv, options, answer, startBranch, git, ops, clock>>
    /\ UNCHANGED discoveryVars
    /\ UNCHANGED loopVars

(***************************************************************************)
(* cli/index: executeRebase                                                *)
(***************************************************************************)
\* what the user can type at the prompt
Answers ==
    {<<>>, <<"y">>, <<"Y">>, <<"y","e","s">>, <<"Y","e","S">>,
     <<"n">>, <<"y"," ">>, <<"y","e">>}

\* the prompt, unless --yes: the question is written and a line is read
Confirm ==
    /\ pc = "confirm"
    /\ IF options.skipConfirmation
       THEN /\ pc' = "begin"
            /\ UNCHANGED <<out, answer>>
       ELSE \E line \in Answers :
            /\ pc' = "answered"
            /\ answer' = line
            /\ out' = Append(out, Msg("prompt", <<>>))
    /\ UNCHANGED <<argv, options, startBranch, git, ops, clock, exitCode>>
    /\ UNCHANGED discoveryVars
    /\ UNCHANGED loopVars

\* a prompt that takes every line starting with y for a yes
Confirmed_startsWithY ==
    /\ pc = "answered"
    /\ LET confirmed == startsWith(toLowerCase(answer), <<"y">>)
       IN IF confirmed
          THEN /\ pc' = "begin"
               /\ answer' = <<>>
               /\ UNCHANGED <<out, exitCode>>
          ELSE /\ Exit(0)
               /\ out' = Append(out, Msg("aborted by user", <<>>))
               /\ UNCHANGED answer
    /\ UNCHANGED <<argv, options, startBranch, git, ops, clock>>
    /\ UNCHANGED discoveryVars
    /\ UNCHANGED loopVars

\* the promise resolves: answer.toLowerCase() === "y" || ... === "yes"
Confirmed ==
    /\ pc = "answered"
    /\ LET confirmed == toLowerCase(answer) = <<"y">> \/ toLowerCase(answer) = <<"y","e","s">>
       IN IF confirmed
          THEN /\ pc' = "begin"
               /\ answer' = <<>>
               /\ UNCHANGED <<out, exitCode>>
          ELSE /\ Exit(0)
               /\ out' = Append(out, Msg("aborted by user", <<>>))
               /\ UNCHANGED answer
    /\ UNCHANGED <<argv, options, startBranch, git, ops, clock>>
    /\ UNCHANGED discoveryVars
    /\ UNCHANGED loopVars

\* save the current branch, fetch, enter the loop
Begin ==
    /\ pc = "begin"
    /\ \E net \in BOOLEAN :
         LET f == fetchFromOrigin(git, net)
         IN /\ git' = f.git
            /\ ops' = Append(ops, Op("fetch", <<>>, 0, Ignored(f.ok)))
            /\ out' = IF f.ok THEN out ELSE Append(out, Msg("could not fetch", <<>>))
    /\ originalBranch' = getCurrentBranch(git)
    /\ backups' = <<>>
    /\ successCount' = 0
    /\ idx' = 1
    /\ pc' = "backup"
    /\ UNCHANGED <<argv, options, answer, startBranch, commitHashes, k, collectedTip, clock, exitCode>>
    /\ UNCHANGED discoveryVars

\* ui: what displayBackups and displayRestoreInstructions show: the list,
\* when it is not empty
displayBackups(list) == IF Len(list) > 0 THEN <<Msg("backups", list)>> ELSE <<>>

displayRestoreInstructions(list) == IF Len(list) > 0 THEN <<Msg("restore", list)>> ELSE <<>>

\* the catch block of the loop: report, show how to restore, break
CatchBlock_continue ==
    /\ out' = out \o <<Msg("failed", <<>>)>> \o displayRestoreInstructions(backups)
    /\ IF idx < Len(chain)
       THEN pc' = "backup" /\ idx' = idx + 1
       ELSE pc' = "return" /\ UNCHANGED idx

CatchBlock ==
    /\ out' = out \o <<Msg("failed", <<>>)>> \o displayRestoreInstructions(backups)
    /\ pc' = "return"
    /\ UNCHANGED idx

\* the backup step without the warning of a failed attempt
Backup_noWarning ==
    /\ pc = "backup"
    /\ LET item == chain[idx]
           b == createBackup(git, item.branch, clock)
       IN /\ git' = b.git
          /\ ops' = Append(ops, Op("update-ref", item.branch, idx, Ignored(b.ref # NoBackup)))
          /\ backups' = IF b.ref # NoBackup
                        THEN Append(backups, [branch |-> item.branch, ref |-> b.ref])
                        ELSE backups
          /\ out' = IF b.ref # NoBackup
                    THEN Append(out, Msg("backup created", <<>>))
                    ELSE out
    /\ clock' = clock + 1
    /\ pc' = "refresh"
    /\ UNCHANGED <<argv, options, answer, startBranch, originalBranch, successCount, idx,
                   commitHashes, k, collectedTip, exitCode>>
    /\ UNCHANGED discoveryVars

\* the backup step with a failed backup thrown to the catch of the loop
Backup_fatal ==
    /\ pc = "backup"
    /\ LET item == chain[idx]
           b == createBackup(git, item.branch, clock)
       IN /\ git' = b.git
          /\ ops' = Append(ops, Op("update-ref", item.branch, idx, Ignored(b.ref # NoBackup)))
          /\ backups' = IF b.ref # NoBackup
                        THEN Append(backups, [branch |-> item.branch, ref |-> b.ref])
                        ELSE backups
          /\ IF b.ref # NoBackup
             THEN /\ out' = Append(out, Msg("backup created", <<>>))
                  /\ pc' = "refresh"
             ELSE /\ out' = out \o <<Msg("could not create backup", <<>>), Msg("failed", <<>>)>>
                  /\ pc' = "return"
    /\ clock' = clock + 1
    /\ UNCHANGED <<argv, options, answer, startBranch, originalBranch, successCount, idx,
                   commitHashes, k, collectedTip, exitCode>>
    /\ UNCHANGED discoveryVars

\* const backupRef = createBackup(item.branch); if (backupRef) backups.push(...)
Backup ==
    /\ pc = "backup"
    /\ LET item == chain[idx]
           b == createBackup(git, item.branch, clock)
       IN /\ git' = b.git
          /\ ops' = Append(ops, Op("update-ref", item.branch, idx, Ignored(b.ref # NoBackup)))
          /\ backups' = IF b.ref # NoBackup
                        THEN Append(backups, [branch |-> item.branch, ref |-> b.ref])
                        ELSE backups
          /\ out' = IF b.ref # NoBackup
                    THEN Append(out, Msg("backup created", <<>>))
                    ELSE Append(out, Msg("could not create backup", <<>>))
    /\ clock' = clock + 1
    /\ pc' = "refresh"
    /\ UNCHANGED <<argv, options, answer, startBranch, originalBranch, successCount, idx,
                   commitHashes, k, collectedTip, exitCode>>
    /\ UNCHANGED discoveryVars

\* the refresh of the target with its failures thrown to the catch of the loop
Refresh_fatal ==
    /\ pc = "refresh"
    /\ LET item == chain[idx]
           c == checkoutBranch(git, item.target)
           p == pullBranch(c.git, item.target)
       IN IF c.ok /\ p.ok
          THEN /\ git' = p.git
               /\ ops' = ops \o <<Op("checkout", item.target, idx, "ok"),
                                  Op("pull", item.target, idx, "ok")>>
               /\ pc' = "rebase"
               /\ UNCHANGED out
          ELSE /\ git' = c.git
               /\ ops' = Append(ops, Op("checkout", item.target, idx, Thrown(c.ok)))
               /\ out' = Append(out, Msg("failed", <<>>))
               /\ pc' = "return"
    /\ UNCHANGED <<argv, options, answer, startBranch, clock, exitCode>>
    /\ UNCHANGED discoveryVars
    /\ UNCHANGED loopVars

\* checkoutBranch(item.target, { ignoreError: true }); pullBranch(item.target)
Refresh ==
    /\ pc = "refresh"
    /\ LET item == chain[idx]
           c == checkoutBranch(git, item.target)
           p == pullBranch(c.git, item.target)
       IN /\ git' = p.git
          /\ ops' = ops \o <<Op("checkout", item.target, idx, Ignored(c.ok)),
                             Op("pull", item.target, idx, Ignored(p.ok))>>
    /\ pc' = "rebase"
    /\ UNCHANGED <<argv, options, answer, startBranch, out, clock, exitCode>>
    /\ UNCHANGED discoveryVars
    /\ UNCHANGED loopVars

(***************************************************************************)
(* core/rebase: rebaseBranch up to the loop over the commits               *)
(***************************************************************************)
\* rebaseBranch with the failure of the checkout of the branch ignored
Collect_ignoredCheckout ==
    /\ pc = "rebase"
    /\ LET item == chain[idx]
           own == getBranchOwnCommits(git, item.branch, item.target)
           c == checkoutBranch(git, item.branch)
           r == resetHard(c.git, item.target)
           logOp == Op("log", item.branch, idx, Ignored(own.ok))
       IN IF Len(own.list) = 0
          THEN /\ ops' = Append(ops, logOp)
               /\ commitHashes' = <<>>
               /\ collectedTip' = git.local[item.branch]
               /\ out' = Append(out, Msg("no unique commits", <<>>))
               /\ pc' = "push"
               /\ UNCHANGED <<git, idx, k>>
          ELSE IF ~r.ok
          THEN /\ ops' = ops \o <<logOp, Op("checkout", item.branch, idx, Ignored(c.ok)),
                                  Op("reset", item.target, idx, "threw")>>
               /\ commitHashes' = Reverse(own.list)
               /\ collectedTip' = git.local[item.branch]
               /\ git' = c.git
               /\ CatchBlock
               /\ UNCHANGED k
          ELSE /\ ops' = ops \o <<logOp, Op("checkout", item.branch, idx, Ignored(c.ok)),
                                  Op("reset", item.target, idx, "ok")>>
               /\ commitHashes' = Reverse(own.list)
               /\ collectedTip' = git.local[item.branch]
               /\ git' = r.git
               /\ k' = 1
               /\ pc' = "pick"
               /\ UNCHANGED <<out, idx>>
    /\ UNCHANGED <<argv, options, answer, startBranch, originalBranch, backups, successCount,
                   clock, exitCode>>
    /\ UNCHANGED discoveryVars

Collect ==
    /\ pc = "rebase"
    /\ LET item == chain[idx]
           own == getBranchOwnCommits(git, item.branch, item.target)
           c == checkoutBranch(git, item.branch)
           r == resetHard(c.git, item.target)
           logOp == Op("log", item.branch, idx, Ignored(own.ok))
       IN IF Len(own.list) = 0
          THEN \* no unique commits: return true
               /\ ops' = Append(ops, logOp)
               /\ commitHashes' = <<>>
               /\ collectedTip' = git.local[item.branch]
               /\ out' = Append(out, Msg("no unique commits", <<>>))
               /\ pc' = "push"
               /\ UNCHANGED <<git, idx, k>>
          ELSE IF ~c.ok
          THEN \* checkoutBranch throws
               /\ ops' = ops \o <<logOp, Op("checkout", item.branch, idx, "threw")>>
               /\ commitHashes' = Reverse(own.list)
               /\ collectedTip' = git.local[item.branch]
               /\ CatchBlock
               /\ UNCHANGED <<git, k>>
          ELSE IF ~r.ok
          THEN \* resetHard throws
               /\ ops' = ops \o <<logOp, Op("checkout", item.branch, idx, "ok"),
                                  Op("reset", item.target, idx, "threw")>>
               /\ commitHashes' = Reverse(own.list)
               /\ collectedTip' = git.local[item.branch]
               /\ git' = c.git
               /\ CatchBlock
               /\ UNCHANGED k
          ELSE /\ ops' = ops \o <<logOp, Op("checkout", item.branch, idx, "ok"),
                                  Op("reset", item.target, idx, "ok")>>
               /\ commitHashes' = Reverse(own.list)
               /\ collectedTip' = git.local[item.branch]
               /\ git' = r.git
               /\ k' = 1
               /\ pc' = "pick"
               /\ UNCHANGED <<out, idx>>
    /\ UNCHANGED <<argv, options, answer, startBranch, originalBranch, backups, successCount,
                   clock, exitCode>>
    /\ UNCHANGED discoveryVars

(***************************************************************************)
(* core/rebase: one iteration of the loop over the commits, or its end     *)
(***************************************************************************)
Pick ==
    /\ pc = "pick"
    /\ IF k > Len(commitHashes)
       THEN \* return true
            /\ pc' = "push"
            /\ UNCHANGED <<git, ops, out, k, exitCode>>
       ELSE \E outcome \in CherryPickOutcomes(git, commitHashes[k]) :
            LET commitHash == commitHashes[k]
                cp == cherryPick(git, commitHash, outcome)
                status == getStatus(cp.git)
                skip == cherryPickSkip(cp.git)
            IN IF cp.ok
               THEN /\ git' = cp.git
                    /\ ops' = Append(ops, Op("cherry-pick", commitHash, idx, "ok"))
                    /\ out' = Append(out, Msg("cherry-picked", <<>>))
                    /\ k' = k + 1
                    /\ UNCHANGED <<pc, exitCode>>
               ELSE IF hasConflict(status)
               THEN \* process.exit(1) inside rebaseBranch
                    /\ git' = cp.git
                    /\ ops' = ops \o <<Op("cherry-pick", commitHash, idx, outcome),
                                       Op("status", status, idx, "ok")>>
                    /\ out' = Append(out, Msg("conflict detected", <<>>))
                    /\ Exit(1)
                    /\ UNCHANGED k
               ELSE /\ git' = skip.git
                    /\ ops' = ops \o <<Op("cherry-pick", commitHash, idx, outcome),
                                       Op("status", status, idx, "ok"),
                                       Op("cherry-pick --skip", <<>>, idx, Ignored(skip.ok))>>
                    /\ out' = Append(out, Msg("skipped", <<>>))
                    /\ k' = k + 1
                    /\ UNCHANGED <<pc, exitCode>>
    /\ UNCHANGED <<argv, options, answer, startBranch, originalBranch, backups, successCount, idx,
                   commitHashes, collectedTip, clock>>
    /\ UNCHANGED discoveryVars

(***************************************************************************)
(* core/rebase: pushRebasedBranch, and the end of the loop body            *)
(***************************************************************************)
\* the end of the loop body without successCount++
Push_noCount ==
    /\ pc = "push"
    /\ LET item == chain[idx]
           p == pushBranch(git, item.branch)
       IN /\ git' = p.git
          /\ ops' = Append(ops, Op("push", item.branch, idx, Thrown(p.ok)))
          /\ IF p.ok
             THEN /\ successCount' = successCount
                  /\ out' = Append(out, Msg("pushed", <<>>))
                  /\ IF idx < Len(chain)
                     THEN pc' = "backup" /\ idx' = idx + 1
                     ELSE pc' = "return" /\ UNCHANGED idx
             ELSE /\ CatchBlock
                  /\ UNCHANGED successCount
    /\ UNCHANGED <<argv, options, answer, startBranch, originalBranch, backups, commitHashes, k,
                   collectedTip, clock, exitCode>>
    /\ UNCHANGED discoveryVars

Push ==
    /\ pc = "push"
    /\ LET item == chain[idx]
           p == pushBranch(git, item.branch)
       IN /\ git' = p.git
          /\ ops' = Append(ops, Op("push", item.branch, idx, Thrown(p.ok)))
          /\ IF p.ok
             THEN /\ successCount' = successCount + 1
                  /\ out' = Append(out, Msg("pushed", <<>>))
                  /\ IF idx < Len(chain)
                     THEN pc' = "backup" /\ idx' = idx + 1
                     ELSE pc' = "return" /\ UNCHANGED idx
             ELSE /\ CatchBlock
                  /\ UNCHANGED successCount
    /\ UNCHANGED <<argv, options, answer, startBranch, originalBranch, backups, commitHashes, k,
                   collectedTip, clock, exitCode>>
    /\ UNCHANGED discoveryVars

(***************************************************************************)
(* cli/index: executeRebase after the loop                                 *)
(***************************************************************************)
\* the end of executeRebase without the check of successCount
Return_statusZero ==
    /\ pc = "return"
    /\ LET c == checkoutBranch(git, originalBranch)
       IN /\ git' = c.git
          /\ ops' = Append(ops, Op("checkout", originalBranch, 0, Ignored(c.ok)))
    /\ out' = out \o <<Msg("rebased", <<successCount, Len(chain)>>)>> \o displayBackups(backups)
    /\ Exit(0)
    /\ UNCHANGED <<argv, options, answer, startBranch, clock>>
    /\ UNCHANGED discoveryVars
    /\ UNCHANGED loopVars

Return ==
    /\ pc = "return"
    /\ LET c == checkoutBranch(git, originalBranch)
       IN /\ git' = c.git
          /\ ops' = Append(ops, Op("checkout", originalBranch, 0, Ignored(c.ok)))
    /\ out' = out \o <<Msg("rebased", <<successCount, Len(chain)>>)>> \o displayBackups(backups)
    /\ Exit(IF successCount < Len(chain) THEN 1 ELSE 0)
    /\ UNCHANGED <<argv, options, answer, startBranch, clock>>
    /\ UNCHANGED discoveryVars
    /\ UNCHANGED loopVars

Next ==
    \/ Main
    \/ buildPRChain
    \/ Plan
    \/ Confirm
    \/ Confirmed
    \/ Begin
    \/ Backup
    \/ Refresh
    \/ Collect
    \/ Pick
    \/ Push
    \/ Return

Spec == Init /\ [][Next]_vars


\* every step of the discovery loop is eventually taken: the process runs.
\* Discovery reads no flag of the command line, so the runs are those of a
\* command line with no flag: a branch at most.
FairInit == Init /\ Range(argv) \subseteq HeadRefNames

FairSpec == FairInit /\ [][Next]_vars /\ WF_vars(buildPRChain)

(***************************************************************************)
(* The validator on its own: sanitizeBranchName applied to any string over *)
(* Chars of length up to MaxLen.  Here startBranch holds the string handed *)
(* to the validator and currentBranch the string it returned; a throw is   *)
(* caught as determineStartBranch catches it: the message is logged and    *)
(* the process exits with status 1.                                        *)
(***************************************************************************)
Chars == {"a", "Z", "7", "/", "_", ".", "-", ";", " "}

RECURSIVE Strings(_)
Strings(n) ==
    IF n = 0 THEN {<<>>}
    ELSE LET shorter == Strings(n - 1)
         IN shorter \cup {Append(w, c) : w \in {v \in shorter : Len(v) = n - 1}, c \in Chars}

SanitizeInit ==
    /\ pc = "sanitize"
    /\ argv = <<>>
    /\ options = defaultOptions
    /\ answer = <<>>
    /\ startBranch \in Strings(MaxLen)
    /\ chain = <<>>
    /\ visited = {}
    /\ currentBranch = <<>>
    /\ prsLength = 0
    /\ git = Repository({})
    /\ originalBranch = <<>>
    /\ backups = <<>>
    /\ successCount = 0
    /\ idx = 0
    /\ commitHashes = <<>>
    /\ k = 0
    /\ collectedTip = <<>>
    /\ ops = <<>>
    /\ out = <<>>
    /\ clock = 1
    /\ exitCode = -1

Sanitize ==
    /\ pc = "sanitize"
    /\ LET checked == sanitizeBranchName(startBranch)
       IN IF checked.ok
          THEN /\ currentBranch' = checked.value
               /\ pc' = "sanitized"
               /\ UNCHANGED <<out, exitCode>>
          ELSE /\ out' = Append(out, Msg(checked.error, <<>>))
               /\ Exit(1)
               /\ UNCHANGED currentBranch
    /\ UNCHANGED <<argv, options, answer, startBranch, chain, visited, prsLength, git, ops, clock>>
    /\ UNCHANGED loopVars

SanitizeNext == Sanitize

SanitizeSpec == SanitizeInit /\ [][SanitizeNext]_vars

(***************************************************************************)
(* The protected-branch test on its own, as determineStartBranch applies   *)
(* it to the start branch: the warning is logged when the test says yes.   *)
(* The names tried are the protected names and what is near them: other    *)
(* cases of the letters, a letter more or less at either end, the first    *)
(* four letters, a word appended.                                          *)
(***************************************************************************)
toUpperCaseChar(c) ==
    IF \E i \in 1..26 : Lower[i] = c
    THEN Upper[CHOOSE i \in 1..26 : Lower[i] = c]
    ELSE c
toUpperCase(s) == [i \in 1..Len(s) |-> toUpperCaseChar(s[i])]

Near(p) ==
    {p,
     toUpperCase(p),
     <<toUpperCaseChar(Head(p))>> \o Tail(p),
     Append(Front(p), toUpperCaseChar(Last(p))),
     Front(p),
     Tail(p),
     SubSeq(p, 1, 4),
     Append(p, "s"),
     <<"x">> \o p,
     p \o <<"l","i","n","e">>,
     p \o <<"m","e","n","t">>}

ProtectedInputs == UNION {Near(p) : p \in protectedBranches}

ProtectedInit ==
    /\ pc = "protected?"
    /\ argv = <<>>
    /\ options = defaultOptions
    /\ answer = <<>>
    /\ startBranch \in ProtectedInputs
    /\ chain = <<>>
    /\ visited = {}
    /\ currentBranch = <<>>
    /\ prsLength = 0
    /\ git = Repository({})
    /\ originalBranch = <<>>
    /\ backups = <<>>
    /\ successCount = 0
    /\ idx = 0
    /\ commitHashes = <<>>
    /\ k = 0
    /\ collectedTip = <<>>
    /\ ops = <<>>
    /\ out = <<>>
    /\ clock = 1
    /\ exitCode = -1

\* if (isProtectedBranch(startBranch)) log(...); return startBranch
WarnProtected ==
    /\ pc = "protected?"
    /\ out' = IF isProtectedBranch(startBranch)
              THEN Append(out, Msg("protected start", <<>>))
              ELSE out
    /\ pc' = "discover?"
    /\ UNCHANGED <<argv, options, answer, startBranch, git, ops, clock, exitCode>>
    /\ UNCHANGED discoveryVars
    /\ UNCHANGED loopVars

ProtectedNext == WarnProtected

ProtectedSpec == ProtectedInit /\ [][ProtectedNext]_vars

(***************************************************************************)
(* The parser with the run behind it: any command line of up to MaxArgs    *)
(* arguments out of Arguments, in the plain repository.                    *)
(***************************************************************************)
Arguments == {tHelp, tH, tVersion, tV, tDryRun, tHost, tYes, tY, tUnknown, nA, nBad}

RECURSIVE ArgLists(_)
ArgLists(n) ==
    IF n = 0 THEN {<<>>}
    ELSE LET shorter == ArgLists(n - 1)
         IN shorter \cup {Append(l, a) : l \in {v \in shorter : Len(v) = n - 1}, a \in Arguments}

ArgsInit ==
    /\ pc = "main"
    /\ argv \in ArgLists(MaxArgs)
    /\ options = defaultOptions
    /\ answer = <<>>
    /\ startBranch = <<>>
    /\ chain = <<>>
    /\ visited = {}
    /\ currentBranch = <<>>
    /\ prsLength = 0
    /\ git = Repository({})
    /\ originalBranch = <<>>
    /\ backups = <<>>
    /\ successCount = 0
    /\ idx = 0
    /\ commitHashes = <<>>
    /\ k = 0
    /\ collectedTip = <<>>
    /\ ops = <<>>
    /\ out = <<>>
    /\ clock = 1
    /\ exitCode = -1

ArgsSpec == ArgsInit /\ [][Next]_vars

\* the parser on its own: main up to the call of buildPRChain
ParseNext == Main

ParseSpec == ArgsInit /\ [][ParseNext]_vars

(***************************************************************************)
(* What the properties below speak about                                   *)
(***************************************************************************)
\* the commands that write to the repository or to origin
Mutating == {"fetch", "update-ref", "checkout", "pull", "reset", "cherry-pick",
             "cherry-pick --skip", "push"}

\* case-insensitively one of the protected names
ProtectedName(name) == toLowerCase(name) \in protectedBranches

ProtectedInChain == \E i \in 1..Len(chain) : ProtectedName(chain[i].branch)

\* the processing of a link failed at this command: it threw to the loop of
\* executeRebase, or it is the status that showed a conflict
Failure(op) ==
    /\ op.link >= 1
    /\ \/ op.res = "threw"
       \/ op.cmd = "status" /\ \E m \in {<<"U","U">>, <<"A","A">>, <<"D","D">>} : includes(op.ref, m)

LinkFailed == \E n \in 1..Len(ops) : Failure(ops[n])

Lookups == SelectSeq(ops, LAMBDA op : op.cmd = "pr list")

(***************************************************************************)
(* C1  Fail-fast: once the processing of link i has failed (a conflict, a  *)
(* checkout or reset that failed, a rejected push) no command is run for   *)
(* any link j > i in the same run.                                         *)
(***************************************************************************)
C1_FailFast ==
    \A m \in 1..Len(ops) :
        Failure(ops[m]) => \A n \in (m + 1)..Len(ops) : ops[n].link <= ops[m].link

\* a run of a chain of two or more links ended after its first link failed
C1_Witness ==
    /\ pc = "exit"
    /\ Len(chain) >= 2
    /\ \E n \in 1..Len(ops) : Failure(ops[n]) /\ ops[n].link = 1

(***************************************************************************)
(* C2  If the branch of any link of the discovered chain is protected, the *)
(* run ends with failure status before any fetch, backup, checkout, pull,  *)
(* reset, cherry-pick or push, also under --dry-run and --yes.             *)
(***************************************************************************)
C2_ProtectedAborts ==
    ProtectedInChain =>
        /\ \A n \in 1..Len(ops) : ops[n].cmd \notin Mutating
        /\ pc \in {"discover", "plan", "exit"}
        /\ pc = "exit" => exitCode = 1

\* a run given --dry-run and --yes ended on a chain with a protected branch
C2_Witness ==
    /\ pc = "exit"
    /\ ProtectedInChain
    /\ options.dryRun
    /\ options.skipConfirmation


C4_NoCommitLost ==
    (Len(ops) >= 1 /\ ops[Len(ops)].cmd = "push" /\ ops[Len(ops)].res = "ok") =>
        \A i \in 1..Len(commitHashes) :
            Last(commitHashes[i]) \in Range(git.remote[ops[Len(ops)].ref])

(***************************************************************************)
(* C5  Safe publish: the publish of a branch that was replayed discards    *)
(* from origin's branch no commit that was not part of the local branch    *)
(* collected and replayed.                                                 *)
(***************************************************************************)
C5_SafePublish ==
    [][(pc = "push" /\ Len(commitHashes) >= 1) =>
          \A b \in Branches : \A c \in Range(git.remote[b]) :
              c \in Range(git'.remote[b]) \/ c \in Range(collectedTip)]_vars

(***************************************************************************)
(* C6  When the processing of a link failed, the run has shown, by the     *)
(* time it ends, restore instructions for every backup it created.         *)
(***************************************************************************)
C6_RestoreShown ==
    (pc = "exit" /\ LinkFailed) =>
        \A i \in 1..Len(backups) :
            \E n \in 1..Len(out) :
                out[n].msg = "restore" /\ backups[i] \in Range(out[n].backups)

(***************************************************************************)
(* C7  A run that entered the link loop attempts, before it ends, to check *)
(* out the branch that was checked out when it started, however the loop   *)
(* ended.                                                                  *)
(***************************************************************************)
C7_ReturnsToOriginal ==
    (pc = "exit" /\ \E n \in 1..Len(ops) : ops[n].link >= 1) =>
        \E n \in 1..Len(ops) :
            /\ ops[n].cmd = "checkout"
            /\ ops[n].ref = originalBranch
            /\ ops[n].link = 0

(***************************************************************************)
(* C8  The chain is linked: the first link targets the start branch and    *)
(* every further link targets the branch of the link before it.            *)
(***************************************************************************)
C8_Linked ==
    /\ Len(chain) >= 1 => chain[1].target = startBranch
    /\ \A i \in 1..(Len(chain) - 1) : chain[i + 1].target = chain[i].branch

\* buildPRChain has returned a chain of two or more links
C8_Witness == pc = "plan" /\ Len(chain) >= 2

(***************************************************************************)
(* C9  No branch name is the branch of two links of the chain.             *)
(***************************************************************************)
C9_NoBranchTwice ==
    \A i \in 1..Len(chain) : \A j \in 1..Len(chain) :
        i # j => chain[i].branch # chain[j].branch

(***************************************************************************)
(* C10  Discovery terminates, with at most one lookup per branch name and  *)
(* a chain no longer than the number of distinct branch names on the walk  *)
(* (the start branch and the branches of the links, each reachable from    *)
(* the start).                                                             *)
(***************************************************************************)
C10_Bounds ==
    /\ LET looked == Lookups
       IN \A m \in 1..Len(looked) : \A n \in (m + 1)..Len(looked) :
             looked[m].ref # looked[n].ref
    /\ Len(chain) <= Cardinality({startBranch} \cup Range(getBranchesInChain(chain)))
    /\ pc = "discover" => Len(chain) < MaxChainLen

C10_Terminates == [](C10_Bounds) /\ (pc = "discover" ~> pc = "plan")

\* the walk has come round a cycle and has returned
C10_Witness ==
    /\ pc = "plan"
    /\ Len(chain) >= 2
    /\ chain[Len(chain)].branch \in visited

(***************************************************************************)
(* C11  sanitizeBranchName agrees with the reference on every string: the  *)
(* pattern error when the string is empty or holds a character outside     *)
(* [A-Za-z0-9/_.-]; otherwise the unsafe error when it starts with "-" or  *)
(* holds ".."; otherwise the string itself, unchanged.                     *)
(***************************************************************************)
\* the characters of the model's alphabet that the class admits, listed
AllowedChars == {"a", "Z", "7", "/", "_", ".", "-"}

ReferenceOutcome(w) ==
    IF w = <<>> \/ \E i \in 1..Len(w) : w[i] \notin AllowedChars
    THEN "Invalid branch name"
    ELSE IF w[1] = "-" \/ \E i \in 1..(Len(w) - 1) : w[i] = "." /\ w[i + 1] = "."
    THEN "Potentially unsafe branch name"
    ELSE "accepted"

C11_AgreesWithReference ==
    /\ pc = "sanitized" =>
          /\ ReferenceOutcome(startBranch) = "accepted"
          /\ currentBranch = startBranch
    /\ pc = "exit" =>
          /\ exitCode = 1
          /\ Len(out) = 1
          /\ out[1].msg = ReferenceOutcome(startBranch)
          /\ out[1].msg # "accepted"

\* a string of admitted characters that holds ".." was rejected as unsafe
C11_Witness ==
    /\ pc = "exit"
    /\ startBranch = <<"a", ".", ".">>
    /\ out[1].msg = "Potentially unsafe branch name"

(***************************************************************************)
(* C12  An invalid branch name is fatal: once the validator has rejected   *)
(* a name of the run (the start branch, or the head of a pull request the  *)
(* lookup returned) no mutating command is run and the run does not end    *)
(* with status 0.                                                          *)
(***************************************************************************)
InvalidNameMet ==
    \E n \in 1..Len(out) :
        out[n].msg \in {"Invalid branch name", "Potentially unsafe branch name",
                        "Could not fetch PRs: Invalid branch name",
                        "Could not fetch PRs: Potentially unsafe branch name"}

C12_InvalidNameFatal ==
    InvalidNameMet =>
        /\ \A n \in 1..Len(ops) : ops[n].cmd \notin Mutating
        /\ pc = "exit" => exitCode = 1

(***************************************************************************)
(* C13  Single choke point: the branch name in every git or gh command of  *)
(* the run (pr list, log, checkout, pull, reset, update-ref, push) is a    *)
(* name the run has passed through sanitizeBranchName and that was         *)
(* accepted: the start branch, the base of a lookup, the head of a link.   *)
(***************************************************************************)
BranchCommands == {"pr list", "log", "checkout", "pull", "reset", "update-ref", "push"}

\* the names the run has handed to sanitizeBranchName and got back
Sanitized ==
    {n \in {startBranch} \cup visited \cup Range(getBranchesInChain(chain)) :
        sanitizeBranchName(n).ok}

C13_ChokePoint ==
    \A n \in 1..Len(ops) :
        ops[n].cmd \in BranchCommands => ops[n].ref \in Sanitized

(***************************************************************************)
(* C14  Backup precedes rewrite: every checkout, hard reset and            *)
(* cherry-pick of a link comes after the backup attempt for the branch of  *)
(* that link, and a backup ref, when it is created, points at the tip the  *)
(* branch of the link has at that moment, before the link touches it.      *)
(***************************************************************************)
C14_BackupPrecedesRewrite ==
    [][/\ \A n \in 1..Len(ops') :
             (ops'[n].link >= 1 /\ ops'[n].cmd \in {"checkout", "reset", "cherry-pick"}) =>
                 \E m \in 1..(n - 1) :
                     /\ ops'[m].cmd = "update-ref"
                     /\ ops'[m].link = ops'[n].link
                     /\ ops'[m].ref = chain'[ops'[n].link].branch
       /\ \A e \in git'.backup \ git.backup :
             /\ pc = "backup"
             /\ e.ref.branch = chain[idx].branch
             /\ e.tip = git.local[chain[idx].branch]]_vars

\* the branch of a link was hard-reset after a backup of it was created
C14_Witness ==
    /\ pc = "pick"
    /\ \E e \in git.backup : e.ref.branch = chain[idx].branch /\ e.tip = collectedTip
    /\ ops[Len(ops)].cmd = "reset"
    /\ ops[Len(ops)].link = idx

(***************************************************************************)
(* C15  Backup-before-mutate is unconditional: every hard reset of the run *)
(* is preceded, in its link, by a backup of the branch of the link that    *)
(* was created.                                                            *)
(***************************************************************************)
C15_NoResetWithoutBackup ==
    \A n \in 1..Len(ops) :
        (ops[n].cmd = "reset" /\ ops[n].res = "ok") =>
            \E m \in 1..(n - 1) :
                /\ ops[m].cmd = "update-ref"
                /\ ops[m].link = ops[n].link
                /\ ops[m].ref = chain[ops[n].link].branch
                /\ ops[m].res = "ok"

(***************************************************************************)
(* C15, weaker: every hard reset of the run is preceded, in its link, by a *)
(* backup attempt for the branch of the link; when the attempt succeeded   *)
(* the ref is in the repository and in the list of backups, and when it    *)
(* failed a warning was shown and the reset went ahead without a backup.   *)
(***************************************************************************)
C15_NoResetWithoutBackupAttempt ==
    \A n \in 1..Len(ops) :
        (ops[n].cmd = "reset" /\ ops[n].res = "ok") =>
            \E m \in 1..(n - 1) :
                /\ ops[m].cmd = "update-ref"
                /\ ops[m].link = ops[n].link
                /\ ops[m].ref = chain[ops[n].link].branch
                /\ ops[m].res = "ok" =>
                      \E e \in git.backup : \E i \in 1..Len(backups) :
                          /\ e.ref = backups[i].ref
                          /\ e.ref.branch = ops[m].ref
                /\ ops[m].res # "ok" =>
                      \E i \in 1..Len(out) : out[i].msg = "could not create backup"

\* a branch was hard-reset although its backup could not be created
C15_Witness ==
    /\ pc = "pick"
    /\ ops[Len(ops)].cmd = "reset"
    /\ ops[Len(ops)].res = "ok"
    /\ \E m \in 1..Len(ops) :
          ops[m].cmd = "update-ref" /\ ops[m].link = idx /\ ops[m].res = "ignored"
    /\ backups = <<>>

(***************************************************************************)
(* C16  Every backup attempt is recorded for the final report: when a run  *)
(* has ended with its final report, the backup list shown in it holds one  *)
(* entry per backup attempt of the run, in order, failed attempts          *)
(* included.                                                               *)
(***************************************************************************)
BackupAttempts == SelectSeq(ops, LAMBDA op : op.cmd = "update-ref")

C16_AttemptsReported ==
    (pc = "exit" /\ \E n \in 1..Len(out) : out[n].msg = "rebased") =>
        LET attempts == BackupAttempts
        IN \E n \in 1..Len(out) :
               /\ out[n].msg = "backups"
               /\ Len(out[n].backups) = Len(attempts)
               /\ \A i \in 1..Len(attempts) : out[n].backups[i].branch = attempts[i].ref

(***************************************************************************)
(* C17  Links are processed in discovery order: the commands of the links  *)
(* appear in the order of the chain, and every command of link i+1 comes   *)
(* after the collection of link i (the start of its replay) and after the  *)
(* successful push of the branch of link i.                                *)
(***************************************************************************)
C17_InOrder ==
    /\ \A m \in 1..Len(ops) :
          ops[m].link >= 2 =>
              \A n \in (m + 1)..Len(ops) : ops[n].link >= 1 => ops[m].link <= ops[n].link
    /\ \A n \in 1..Len(ops) :
          ops[n].link >= 2 =>
              \E m \in 1..(n - 1) :
                  /\ ops[m].cmd = "push"
                  /\ ops[m].res = "ok"
                  /\ ops[m].link = ops[n].link - 1
                  /\ ops[m].ref = chain[ops[n].link - 1].branch
                  /\ \E l \in 1..(m - 1) :
                        /\ ops[l].cmd = "log"
                        /\ ops[l].link = ops[n].link - 1

\* a commit of the second link is being replayed
C17_Witness ==
    \E n \in 1..Len(ops) : ops[n].link = 2 /\ ops[n].cmd = "cherry-pick"

(***************************************************************************)
(* C18  When rebaseBranch has returned for a branch with N >= 1 collected  *)
(* commits (no conflict halted it), it has made exactly N cherry-pick      *)
(* attempts, one per collected commit, oldest first: each commit after its *)
(* parent, the tip of the collected branch last.                           *)
(***************************************************************************)
ApplyAttempts == SelectSeq(ops, LAMBDA op : op.cmd = "cherry-pick" /\ op.link = idx)

C18_OldestFirst ==
    (pc = "push" /\ Len(commitHashes) >= 1) =>
        LET attempts == ApplyAttempts
        IN /\ Len(attempts) = Len(commitHashes)
           /\ \A i \in 1..Len(commitHashes) : attempts[i].ref = commitHashes[i]
           /\ attempts[Len(attempts)].ref = collectedTip
           /\ \A i \in 1..(Len(attempts) - 1) : attempts[i].ref = Front(attempts[i + 1].ref)

\* rebaseBranch has returned after the replay of two commits
C18_Witness ==
    /\ pc = "push"
    /\ Len(commitHashes) = 2
    /\ Len(ApplyAttempts) = 2

(***************************************************************************)
(* C19  When the branch of a link has no commit that its target lacks (or  *)
(* the log cannot be read), the replay step runs the log and nothing else: *)
(* no checkout, reset, cherry-pick or skip, and the repository is left as  *)
(* it was.                                                                 *)
(***************************************************************************)
NoUniqueCommits ==
    LET b == git.local[chain[idx].branch]
        t == git.local[chain[idx].target]
    IN b = <<>> \/ t = <<>> \/ isPrefix(b, t)

C19_SkipTouchesNothing ==
    [][(pc = "rebase" /\ NoUniqueCommits) =>
          /\ git' = git
          /\ commitHashes' = <<>>
          /\ pc' = "push"
          /\ Len(ops') = Len(ops) + 1
          /\ ops'[Len(ops')].cmd = "log"]_vars

\* the replay step has returned for a branch that is contained in its target
C19_Witness ==
    /\ pc = "push"
    /\ commitHashes = <<>>
    /\ ops[Len(ops)].cmd = "log"
    /\ git.local[chain[idx].branch] # <<>>
    /\ isPrefix(git.local[chain[idx].branch], git.local[chain[idx].target])

(***************************************************************************)
(* C20  A branch is pushed only when its replay collected commits and      *)
(* consumed them all: after a replay that found no unique commits no push  *)
(* is run, and neither a local nor a remote branch is changed.             *)
(***************************************************************************)
C20_PushOnlyOnSuccess ==
    [][(pc = "push" /\ commitHashes = <<>>) =>
          /\ \A n \in (Len(ops) + 1)..Len(ops') : ops'[n].cmd # "push"
          /\ git'.local = git.local
          /\ git'.remote = git.remote]_vars

(***************************************************************************)
(* C21  A run over a converged chain rewrites nothing: when every branch   *)
(* of the chain sits directly on the current tip of its target, the replay *)
(* step of a link collects no commits and runs the log only: no checkout,  *)
(* hard reset or cherry-pick.                                              *)
(***************************************************************************)
\* every branch of the chain holds the whole history of its target
Converged ==
    \A i \in 1..Len(chain) :
        /\ git.local[chain[i].target] # <<>>
        /\ isPrefix(git.local[chain[i].target], git.local[chain[i].branch])

C21_Idempotent ==
    [][(pc = "rebase" /\ Converged) =>
          /\ commitHashes' = <<>>
          /\ pc' = "push"
          /\ \A n \in (Len(ops) + 1)..Len(ops') : ops'[n].cmd \notin {"reset", "cherry-pick"}]_vars

(***************************************************************************)
(* C22  A run that entered the link loop ends with a non-zero status       *)
(* exactly when fewer links succeeded (were replayed and pushed) than the  *)
(* chain holds; a run whose discovery gave the empty chain ends with       *)
(* status zero.                                                            *)
(***************************************************************************)
\* the links whose push went through
Succeeded == {n \in 1..Len(ops) : ops[n].cmd = "push" /\ ops[n].res = "ok"}

C22_ExitStatus ==
    /\ (pc = "exit" /\ idx >= 1) =>
          (exitCode # 0 <=> Cardinality(Succeeded) < Len(chain))
    /\ (pc = "exit" /\ chain = <<>> /\ Len(Lookups) >= 1) => exitCode = 0

\* a run of two links ended with failure status after one of them succeeded
C22_Witness ==
    /\ pc = "exit"
    /\ Len(chain) = 2
    /\ Cardinality(Succeeded) = 1
    /\ exitCode = 1

\* a run ended with status zero after all links of its chain succeeded
C22_WitnessAll ==
    /\ pc = "exit"
    /\ Len(chain) >= 1
    /\ Cardinality(Succeeded) = Len(chain)
    /\ exitCode = 0

(***************************************************************************)
(* C23  When the lookup for the start branch gives no open pull request,   *)
(* discovery stops with the empty chain, and the run ends with status zero *)
(* without a prompt and without any fetch, backup, checkout, pull, reset,  *)
(* cherry-pick or push.                                                    *)
(***************************************************************************)
Shown(msg) == \E n \in 1..Len(out) : out[n].msg = msg

NoMutation == \A n \in 1..Len(ops) : ops[n].cmd \notin Mutating

C23_EmptyChain ==
    /\ \A b \in Branches : findPRsTargeting(b, [failed |-> FALSE, prs |-> <<>>]) = <<>>
    /\ (visited # {} /\ chain = <<>>) =>
          /\ pc \in {"plan", "exit"}
          /\ visited = {startBranch}
          /\ NoMutation
          /\ ~Shown("prompt")
          /\ pc = "exit" => exitCode = 0 /\ Shown("nothing to rebase")

\* a run ended after a lookup that went through and gave no pull request
C23_Witness ==
    /\ pc = "exit"
    /\ chain = <<>>
    /\ Len(Lookups) = 1
    /\ Lookups[1].res = "ok"
    /\ Len(out) = 1
    /\ out[1].msg = "nothing to rebase"

SaysYes(line) ==
    \/ Len(line) = 1 /\ line[1] \in {"y", "Y"}
    \/ Len(line) = 3 /\ line[1] \in {"y", "Y"} /\ line[2] \in {"e", "E"} /\ line[3] \in {"s", "S"}

C25_ConfirmationGate ==
    /\ [](~options.skipConfirmation =>
            /\ pc \in {"main", "discover", "plan", "confirm", "answered"} => NoMutation
            /\ ~NoMutation => Shown("prompt"))
    /\ [][(pc = "answered" /\ ~SaysYes(answer)) =>
             /\ pc' = "exit"
             /\ exitCode' = 0
             /\ ops' = ops
             /\ git' = git]_vars

\* the run ended at the prompt, which was answered with "y "
C25_Witness ==
    /\ pc = "exit"
    /\ ~options.skipConfirmation
    /\ answer = <<"y", " ">>
    /\ Shown("aborted by user")
    /\ exitCode = 0
    /\ NoMutation

(***************************************************************************)
(* C26  The link appended for a cursor is the first pull request of the    *)
(* list the lookup returned for it, also when the list holds several: the  *)
(* chain grows by that one link, whose target is the cursor, and no two    *)
(* links of a chain have the same target.                                  *)
(***************************************************************************)
C26_FirstPicked ==
    /\ [][(pc = "discover" /\ chain' # chain) =>
             LET link == chain'[Len(chain')]
             IN /\ chain' = Append(chain, link)
                /\ link.number = 1
                /\ link.target = currentBranch
                /\ currentBranch' = link.branch
                /\ prsLength' >= 1]_vars
    /\ [](\A i \in 1..Len(chain) :
             /\ chain[i].number = 1
             /\ \A j \in (i + 1)..Len(chain) : chain[i].target # chain[j].target)

\* the lookup returned two pull requests and the first was appended
C26_Witness ==
    /\ pc = "discover"
    /\ prsLength = 2
    /\ Len(chain) >= 1
    /\ chain[Len(chain)].number = 1
    /\ currentBranch = chain[Len(chain)].branch

(***************************************************************************)
(* C27  isProtectedBranch says yes exactly for the names that are, letter  *)
(* by letter and whatever the case of each letter, one of main, master,    *)
(* develop, development, staging, production, prod: Main and main are      *)
(* protected, mainline is not.                                             *)
(***************************************************************************)
SameLetter(c, d) == \E i \in 1..26 : c \in {Lower[i], Upper[i]} /\ d \in {Lower[i], Upper[i]}

IsOneOfTheSeven(w) ==
    \E p \in {<<"m","a","i","n">>, <<"m","a","s","t","e","r">>,
              <<"d","e","v","e","l","o","p">>,
              <<"d","e","v","e","l","o","p","m","e","n","t">>,
              <<"s","t","a","g","i","n","g">>,
              <<"p","r","o","d","u","c","t","i","o","n">>,
              <<"p","r","o","d">>} :
        /\ Len(w) = Len(p)
        /\ \A i \in 1..Len(p) : SameLetter(w[i], p[i])

C27_ExactAnyCase ==
    /\ isProtectedBranch(<<"M","a","i","n">>)
    /\ isProtectedBranch(<<"m","a","i","n">>)
    /\ ~isProtectedBranch(<<"m","a","i","n","l","i","n","e">>)
    /\ pc = "discover?" => (Shown("protected start") <=> IsOneOfTheSeven(startBranch))

\* the test was applied to mainline and gave no warning
C27_Witness ==
    /\ pc = "discover?"
    /\ startBranch = <<"m","a","i","n","l","i","n","e">>
    /\ out = <<>>

\* the test was applied to PROD and gave the warning
C27_WitnessUpper ==
    /\ pc = "discover?"
    /\ startBranch = <<"P","R","O","D">>
    /\ Shown("protected start")

(***************************************************************************)
(* C28  When a cherry-pick fails and the status shows UU, AA or DD, the    *)
(* process ends at once with status 1: the status is the last command of   *)
(* the run (no skip, reset, checkout or push after it) and the branch of   *)
(* the link stays checked out with the cherry-pick in progress.            *)
(***************************************************************************)
\* the XY code of the entry of a porcelain status
ShowsConflict(status) ==
    Len(status) >= 2 /\ SubSeq(status, 1, 2) \in {<<"U","U">>, <<"A","A">>, <<"D","D">>}

C30_SuccessCount ==
    idx >= 1 =>
        LET done == Succeeded
        IN /\ successCount = Cardinality(done)
           /\ {ops[n].link : n \in done} = 1..successCount
           /\ \A n \in done :
                 /\ ops[n].ref = chain[ops[n].link].branch
                 /\ \E m \in 1..(n - 1) : ops[m].cmd = "log" /\ ops[m].link = ops[n].link
                 /\ \A m \in 1..(n - 1) : ops[m].link = ops[n].link => ~Failure(ops[m])
           /\ \A n \in 1..Len(out) :
                 out[n].msg = "rebased" =>
                     /\ out[n].backups = <<successCount, Len(chain)>>
                     /\ Cardinality(done) = Len(chain) => out[n].backups = <<Len(chain), Len(chain)>>

\* the final report was 2/2 for a chain of two links whose first branch had
\* no unique commits
C30_Witness ==
    /\ pc = "exit"
    /\ Len(chain) = 2
    /\ \E n \in 1..Len(out) : out[n].msg = "rebased" /\ out[n].backups = <<2, 2>>
    /\ \A n \in 1..Len(ops) : ops[n].link = 1 => ops[n].cmd \notin {"reset", "cherry-pick"}
    /\ \E n \in 1..Len(ops) : ops[n].link = 2 /\ ops[n].cmd = "cherry-pick"

(***************************************************************************)
(* C31  A backup failure is not fatal: when the backup of a link's branch  *)
(* cannot be created, a warning is logged, the process keeps running and   *)
(* the next command is the checkout of that link's target; the link is     *)
(* then replayed and pushed like any other and can be counted.             *)
(***************************************************************************)
C31_BackupFailureNotFatal ==
    \A m \in 1..Len(ops) :
        (ops[m].cmd = "update-ref" /\ ops[m].res # "ok") =>
            /\ ops[m].res = "ignored"
            /\ Shown("could not create backup")
            /\ IF m = Len(ops)
               THEN pc = "refresh" /\ exitCode = -1 /\ idx = ops[m].link
               ELSE ops[m + 1] = Op("checkout", chain[ops[m].link].target, ops[m].link,
                                    ops[m + 1].res)

\* a link whose backup could not be created was replayed, pushed and counted
C31_Witness ==
    /\ successCount >= 1
    /\ \E m \in 1..Len(ops) :
          /\ ops[m].cmd = "update-ref"
          /\ ops[m].res = "ignored"
          /\ \E n \in (m + 1)..Len(ops) :
                ops[n].cmd = "cherry-pick" /\ ops[n].res = "ok" /\ ops[n].link = ops[m].link
          /\ \E n \in (m + 1)..Len(ops) :
                ops[n].cmd = "push" /\ ops[n].res = "ok" /\ ops[n].link = ops[m].link

\* the steps whose failure the run ignores
BestEffort(op) ==
    \/ op.cmd \in {"fetch", "pull"}
    \/ op.cmd = "checkout" /\ (op.link = 0 \/ op.ref = chain[op.link].target)

(***************************************************************************)
(* C32  Best-effort steps never stop the run: a failure of the initial     *)
(* fetch, of the checkout of a link's target, of the pull of the target or *)
(* of the final checkout of the original branch is swallowed; the command  *)
(* that follows is the one that follows a success, successCount is left    *)
(* alone, and the status of the run is decided by the count of succeeded   *)
(* links as without the failure.                                           *)
(***************************************************************************)
C32_BestEffort ==
    /\ [](\A m \in 1..Len(ops) :
            (BestEffort(ops[m]) /\ ops[m].res # "ok") =>
                /\ ops[m].res = "ignored"
                /\ CASE ops[m].cmd = "fetch" ->
                          IF m = Len(ops) THEN pc = "backup" /\ exitCode = -1
                          ELSE ops[m + 1].cmd = "update-ref" /\ ops[m + 1].link = 1
                     [] ops[m].cmd = "checkout" /\ ops[m].link >= 1 ->
                          /\ m < Len(ops)
                          /\ ops[m + 1].cmd = "pull"
                          /\ ops[m + 1].link = ops[m].link
                     [] ops[m].cmd = "pull" ->
                          IF m = Len(ops) THEN pc = "rebase" /\ exitCode = -1
                          ELSE ops[m + 1].cmd = "log" /\ ops[m + 1].link = ops[m].link
                     [] OTHER ->
                          /\ m = Len(ops)
                          /\ pc = "exit"
                          /\ exitCode = IF Cardinality(Succeeded) < Len(chain) THEN 1 ELSE 0)
    /\ [][(\E n \in (Len(ops) + 1)..Len(ops') : BestEffort(ops'[n]) /\ ops'[n].res # "ok") =>
             /\ successCount' = successCount
             /\ idx' = IF pc = "begin" THEN 1 ELSE idx]_vars

\* a run ended with status zero, all links succeeded, although the fetch
\* and the refresh of a target had failed
C32_Witness ==
    /\ pc = "exit"
    /\ exitCode = 0
    /\ Len(chain) >= 1
    /\ successCount = Len(chain)
    /\ \E m \in 1..Len(ops) : ops[m].cmd = "fetch" /\ ops[m].res = "ignored"
    /\ \E m \in 1..Len(ops) :
          ops[m].cmd \in {"checkout", "pull"} /\ ops[m].link >= 1 /\ ops[m].res = "ignored"

(***************************************************************************)
(* C33  Starting from a protected branch is a warning, not a failure: a    *)
(* run is never ended in determineStartBranch because its start branch is  *)
(* protected; the warning is logged and discovery runs from it; and when   *)
(* the chain found is not empty and holds no protected branch the run goes *)
(* on (to the prompt, or to the end of a dry run) and can rewrite it.      *)
(***************************************************************************)
C33_ProtectedStartWarns ==
    /\ []((pc = "exit" /\ startBranch = <<>>) =>
            \/ Shown("help") \/ Shown("version") \/ Shown("environment")
            \/ ~ProtectedName(IF options.branch # <<>> THEN options.branch ELSE git.head))
    /\ []((startBranch # <<>> /\ ProtectedName(startBranch)) =>
            /\ Shown("protected start")
            /\ pc # "discover" => startBranch \in visited)
    /\ [][(/\ pc = "plan"
           /\ ProtectedName(startBranch)
           /\ chain # <<>>
           /\ ~ProtectedInChain) =>
             IF options.dryRun THEN pc' = "exit" /\ exitCode' = 0
             ELSE pc' = "confirm" /\ exitCode' = -1]_vars

\* a run started from Main has reset, replayed and pushed a branch
C33_Witness ==
    /\ startBranch = nMain
    /\ Shown("protected start")
    /\ successCount >= 1
    /\ \E n \in 1..Len(ops) : ops[n].cmd = "reset" /\ ops[n].res = "ok"
    /\ \E n \in 1..Len(ops) : ops[n].cmd = "push" /\ ops[n].res = "ok"

(***************************************************************************)
(* C34  parseArgs never takes a token beginning with "-" for the branch:   *)
(* options.branch is null, or it is the last argument that does not begin  *)
(* with "-" and was not taken as the value of --host; an option the parser *)
(* does not know is ignored: the result is what it is without it.          *)
(***************************************************************************)
\* the argument at position i was taken as the value of --host
RECURSIVE TakenAsHost(_, _)
TakenAsHost(args, i) == i >= 2 /\ args[i - 1] = tHost /\ ~TakenAsHost(args, i - 1)

C34_BranchArgument ==
    pc # "main" =>
        LET named == {i \in 1..Len(argv) : argv[i][1] # "-" /\ ~TakenAsHost(argv, i)}
        IN /\ options.branch = <<>> \/ options.branch[1] # "-"
           /\ IF named = {} THEN options.branch = <<>>
              ELSE options.branch = argv[CHOOSE i \in named : \A j \in named : j <= i]
           /\ (\A i \in 1..Len(argv) : argv[i] = tUnknown => ~TakenAsHost(argv, i)) =>
                 options = parseArgs(SelectSeq(argv, LAMBDA a : a # tUnknown))

\* a command line with a branch and an unknown option was parsed
C34_Witness ==
    /\ pc # "main"
    /\ argv = <<nA, tUnknown>>
    /\ options.branch = nA

\* a name after --host was parsed as the host, not as the branch
C34_WitnessHost ==
    /\ pc # "main"
    /\ argv = <<tHost, nA>>
    /\ options.branch = <<>>
    /\ options.host = nA

(***************************************************************************)
(* C35  A failed lookup is the end of the chain, not a failure of the run: *)
(* the cursor is treated as having no pull request, the links found before *)
(* it are the chain, and the run goes on with them; its status is zero     *)
(* when that chain is empty or all its links succeed.                      *)
(***************************************************************************)
C35_LookupFailure ==
    LET looked == Lookups
    IN \A m \in 1..Len(looked) :
           looked[m].res # "ok" =>
               /\ looked[m].res = "ignored"
               /\ m = Len(looked)
               /\ Len(chain) = m - 1
               /\ pc # "discover"
               /\ Shown("Could not fetch PRs: Command failed")
               /\ pc = "exit" =>
                     /\ chain = <<>> => exitCode = 0
                     /\ (idx >= 1 /\ Cardinality(Succeeded) = Len(chain)) => exitCode = 0
                     /\ exitCode # 0 =>
                           \/ ProtectedInChain
                           \/ idx >= 1 /\ Cardinality(Succeeded) < Len(chain)

\* the second lookup failed and the one link found before it was rewritten
\* and pushed; the run ended with status zero
C35_Witness ==
    /\ pc = "exit"
    /\ exitCode = 0
    /\ Len(chain) = 1
    /\ Len(Lookups) = 2
    /\ Lookups[2].res = "ignored"
    /\ \E n \in 1..Len(ops) : ops[n].cmd = "push" /\ ops[n].res = "ok"

(***************************************************************************)
(* C36  The refresh of a link's target (checkout of the target with errors *)
(* ignored, then git pull origin <target> --ff-only) moves no local branch *)
(* other than the target, also when the checkout failed and another branch *)
(* is checked out.                                                         *)
(***************************************************************************)
C36_RefreshMovesTargetOnly ==
    [][pc = "refresh" =>
          \A b \in Refs : b # chain[idx].target => git'.local[b] = git.local[b]]_vars

(***************************************************************************)
(* C37  A run never rewrites the branch it was started from: whatever the  *)
(* pull requests are, no git reset --hard, no cherry-pick and no forced    *)
(* push is executed for a link whose branch is the start branch.           *)
(***************************************************************************)
C37_StartNeverRewritten ==
    \A n \in 1..Len(ops) :
        ops[n].cmd \in {"reset", "cherry-pick", "push"} =>
            chain[ops[n].link].branch # startBranch

(***************************************************************************)
(* C38  In rebaseBranch the hard reset is executed only right after a      *)
(* successful checkout of the link's branch, so the steps of rebaseBranch  *)
(* (the reset and the cherry-picks) move no local branch other than the    *)
(* link's branch; a failed checkout of the link's branch is the last       *)
(* command of its link: no reset, cherry-pick or push follows it, the      *)
(* link is reported as failed and is not counted.                          *)
(***************************************************************************)
C38_ResetAfterCheckout ==
    /\ [](\A n \in 1..Len(ops) :
             /\ ops[n].cmd = "reset" =>
                   /\ n > 1
                   /\ ops[n - 1].cmd = "checkout"
                   /\ ops[n - 1].res = "ok"
                   /\ ops[n - 1].link = ops[n].link
                   /\ ops[n - 1].ref = chain[ops[n].link].branch
                   /\ ops[n].ref = chain[ops[n].link].target
             /\ (ops[n].cmd = "checkout" /\ ops[n].res = "threw") =>
                   /\ ops[n].ref = chain[ops[n].link].branch
                   /\ \A m \in (n + 1)..Len(ops) :
                         ops[m].cmd \notin {"reset", "cherry-pick", "cherry-pick --skip", "push"}
                   /\ \A m \in 1..Len(ops) :
                         ops[m].link = ops[n].link => ops[m].cmd \notin {"reset", "push"}
                   /\ Shown("failed")
                   /\ successCount < Len(chain)
                   /\ pc \in {"return", "exit"}
                   /\ pc = "exit" => exitCode = 1)
    /\ [][(pc = "rebase" \/ pc = "pick") =>
             /\ \A b \in Refs : b # chain[idx].branch => git'.local[b] = git.local[b]
             /\ (pc = "rebase" /\ git'.local # git.local) =>
                   /\ git'.head = chain[idx].branch
                   /\ git'.local[chain[idx].branch] = git.local[chain[idx].target]
      ]_vars

\* a link ended at the failed checkout of its branch: the branch has commits
\* of its own, the run ended with status 1 and every local branch is where
\* it was after the target refresh
C38_Witness ==
    /\ pc = "exit"
    /\ exitCode = 1
    /\ \E n \in 1..Len(ops) :
          /\ ops[n].cmd = "checkout" /\ ops[n].res = "threw"
          /\ ops[n - 1].cmd = "log" /\ ops[n - 1].link = ops[n].link
    /\ Len(commitHashes) >= 1

\* a link whose checkout succeeded was reset to its target's tip and its
\* commits were cherry-picked
C38_WitnessReset ==
    /\ \E n \in 2..Len(ops) :
          /\ ops[n].cmd = "reset" /\ ops[n].res = "ok"
          /\ ops[n - 1].cmd = "checkout" /\ ops[n - 1].res = "ok"
    /\ \E n \in 1..Len(ops) : ops[n].cmd = "cherry-pick" /\ ops[n].res = "ok"

====
